---- MODULE Spec2Model ----
(***************************************************************************)
(* Model of the layering system of wx-caman, src/src/core/layer.js.        *)
(*                                                                         *)
(* A Layer borrows the owning engine `c` and owns one Uint8ClampedArray.   *)
(* The engine (not part of layer.js) keeps a stack of pixel buffers and    *)
(* exposes the active one as c.pixelData.  Buffers are JavaScript objects, *)
(* so the model keeps them in a heap `bufs` and lets c.pixelData,          *)
(* c.pixelStack and layer.pixelData hold references (indices) into it.     *)
(*                                                                         *)
(* Numbers.  JavaScript computes with doubles.  The model computes with    *)
(* exact fractions <<numerator, denominator>>.  The two agree on every     *)
(* input the model draws: opacity percentages are multiples of 25, so      *)
(* percent / 100 is a dyadic double; result alphas are 0, 128 or 255, so   *)
(* with alpha 0 or 255 every intermediate double is exact, and with alpha  *)
(* 128 the exact value is never half-way between two integers (that would  *)
(* need (P - R) * percent * 128 = 12750 modulo 25500, impossible modulo    *)
(* 4), so the rounding error of the doubles cannot change the byte stored. *)
(***************************************************************************)
EXTENDS Integers, Sequences, FiniteSets, TLC

\* ------------------------------------------------------------------------
\* Bounds of the model
\* ------------------------------------------------------------------------

\* Largest number of pixels (width * height) of the image.
MaxPixels == 2

\* Largest number of layers one run of Spec creates, one after another.
MaxLayers == 1

\* Largest number of layers one run of StackSpec creates, nested or one
\* after another.
MaxStackLayers == 2

\* ------------------------------------------------------------------------
\* Program constants
\* ------------------------------------------------------------------------

\* Bytes per pixel: the loops step by 4 (i += 4) and read i .. i + 3.
BytesPerPixel == 4

\* Largest channel value: result.a / 255.
ChannelMax == 255

\* The divisor of the opacity setter: opacity / 100.
PercentScale == 100

\* ------------------------------------------------------------------------
\* Inputs
\* ------------------------------------------------------------------------

\* Pixels the base image is made of: opaque, half transparent, transparent.
BasePixels ==
    << <<100, 100, 100, 255>>, <<255, 200, 10, 128>>, <<10, 20, 30, 0>> >>

\* Colours a layer is filled with.
FillPixels == { <<200, 50, 0, 255>>, <<51, 255, 7, 128>> }

\* Arguments of opacity(): inside, on the edge of and outside 0 .. 100.
Percents == { -50, 0, 25, 50, 100, 150 }

\* Names registered with the Blender, and one that is not.
RegisteredModes == { "normal", "difference", "linearLight", "erase" }

ModeNames == RegisteredModes \cup { "bogus" }

\* The inputs of StackSpec, where layers nest.
StackModes == { "difference", "bogus" }

StackPercents == { 50 }

StackFills == { <<200, 50, 0, 255>> }

Dimensions ==
    { d \in [width : 1 .. MaxPixels, height : 1 .. MaxPixels] :
        d.width * d.height <= MaxPixels }

\* ------------------------------------------------------------------------
\* Arithmetic helpers
\* ------------------------------------------------------------------------

Abs(x) == IF x < 0 THEN -x ELSE x

RECURSIVE GCD(_, _)
GCD(a, b) == IF b = 0 THEN a ELSE GCD(b, a % b)

\* The fraction n / d (d > 0) in lowest terms.
Fraction(n, d) ==
    LET g == GCD(Abs(n), d) IN << n \div g, d \div g >>

\* ------------------------------------------------------------------------
\* Typed arrays
\* ------------------------------------------------------------------------

\* new Uint8ClampedArray(length): zero filled.
NewUint8ClampedArray(length) == [ k \in 1 .. length |-> 0 ]

\* Storing the number n / d (d > 0) into a Uint8ClampedArray element:
\* clamp to 0 .. 255, round to the nearest integer, ties to even.
ToUint8Clamp(n, d) ==
    IF n <= 0 THEN 0
    ELSE IF n >= ChannelMax * d THEN ChannelMax
    ELSE LET f == n \div d
             twice == 2 * (n - f * d)
         IN  IF twice < d THEN f
             ELSE IF twice > d THEN f + 1
             ELSE IF f % 2 = 0 THEN f ELSE f + 1

\* The RGBA object read at byte offset i (0-based) of a buffer.
PixelAt(data, i) == << data[i + 1], data[i + 2], data[i + 3], data[i + 4] >>

\* ------------------------------------------------------------------------
\* Collaborators of layer.js: Blender and Util
\* ------------------------------------------------------------------------

\* Blender.execute(name, rgbaLayer, rgbaParent): the registered function's
\* result, or a thrown error when no function is registered under the name.
\* A blend function may leave the alpha unset (hasA = FALSE).
\*   normal       the layer's pixel
\*   difference   layer - parent on each channel, alpha unset
\*   linearLight  parent + 2 * layer - 255 on each channel, alpha 255
\*   erase        the layer's colour with alpha 0
BlenderExecute(name, rgbaLayer, rgbaParent) ==
    CASE name = "normal" ->
           [ threw |-> FALSE, r |-> rgbaLayer[1], g |-> rgbaLayer[2],
             b |-> rgbaLayer[3], a |-> rgbaLayer[4], hasA |-> TRUE ]
      [] name = "difference" ->
           [ threw |-> FALSE, r |-> rgbaLayer[1] - rgbaParent[1],
             g |-> rgbaLayer[2] - rgbaParent[2],
             b |-> rgbaLayer[3] - rgbaParent[3], a |-> 0, hasA |-> FALSE ]
      [] name = "linearLight" ->
           [ threw |-> FALSE,
             r |-> rgbaParent[1] + 2 * rgbaLayer[1] - ChannelMax,
             g |-> rgbaParent[2] + 2 * rgbaLayer[2] - ChannelMax,
             b |-> rgbaParent[3] + 2 * rgbaLayer[3] - ChannelMax,
             a |-> ChannelMax, hasA |-> TRUE ]
      [] name = "erase" ->
           [ threw |-> FALSE, r |-> rgbaLayer[1], g |-> rgbaLayer[2],
             b |-> rgbaLayer[3], a |-> 0, hasA |-> TRUE ]
      [] OTHER ->
           [ threw |-> TRUE, r |-> 0, g |-> 0, b |-> 0, a |-> 0,
             hasA |-> FALSE ]

\* Util.clampRGB(val)
ClampRGB(val) ==
    IF val < 0 THEN 0 ELSE IF val > ChannelMax THEN ChannelMax ELSE val

\* ------------------------------------------------------------------------
\* Layer: configuration
\* ------------------------------------------------------------------------

\* this.options of a new layer.
DefaultOptions == [ blendingMode |-> "normal", opacity |-> << 1, 1 >> ]

\* A variant that limits the argument to 0 .. 100 first.
OpacityClamped(opacity) ==
    Fraction(IF opacity < 0 THEN 0
             ELSE IF opacity > PercentScale THEN PercentScale
             ELSE opacity, PercentScale)

\* opacity(opacity): the value stored, opacity / 100.
OpacityValue(opacity) == Fraction(opacity, PercentScale)

\* ------------------------------------------------------------------------
\* Layer: copyParent
\* ------------------------------------------------------------------------

\* The loop of copyParent: every byte of `parentData` below `length` is
\* stored into `pixelData` at the same offset.
RECURSIVE CopyLoop(_, _, _, _)
CopyLoop(pixelData, parentData, length, i) ==
    IF i >= length THEN pixelData
    ELSE CopyLoop([ pixelData EXCEPT ![i + 1] = parentData[i + 1],
                                     ![i + 2] = parentData[i + 2],
                                     ![i + 3] = parentData[i + 3],
                                     ![i + 4] = parentData[i + 4] ],
                  parentData, length, i + BytesPerPixel)

\* copyParent(): `parentData` is bound to this.pixelData, the layer's own
\* buffer; the loop runs up to this.c.pixelData.length.
CopyParentData(ownData, engineData) ==
    CopyLoop(ownData, ownData, Len(engineData), 0)

\* ------------------------------------------------------------------------
\* Layer: applyToParent
\* ------------------------------------------------------------------------

\* result.r, result.g and result.b pass through Util.clampRGB.
ClampResult(result) ==
    [ result EXCEPT !.r = ClampRGB(result.r),
                    !.g = ClampRGB(result.g),
                    !.b = ClampRGB(result.b) ]

\* if (!result.a) result.a = rgbaLayer.a : an unset alpha and an alpha of 0
\* are both falsy.
ResultAlpha(result, rgbaLayer) ==
    IF (~result.hasA) \/ result.a = 0 THEN rgbaLayer[4] ELSE result.a

\* A variant that leaves the opacity out of the weight.
WeightIgnoringOpacity(opacity, a) == << a, ChannelMax >>

\* A variant that leaves the result's alpha out of the weight.
WeightIgnoringAlpha(opacity, a) == opacity

\* this.options.opacity * (result.a / 255), as a fraction.
Weight(opacity, a) == << opacity[1] * a, opacity[2] * ChannelMax >>

\* A variant with the sign of the correction flipped.
BlendChannelAdded(parent, result, w) ==
    ToUint8Clamp(parent * w[2] + (parent - result) * w[1], w[2])

\* parent - ((parent - result) * w), stored into the parent's typed array.
BlendChannel(parent, result, w) ==
    ToUint8Clamp(parent * w[2] - (parent - result) * w[1], w[2])

\* A variant that also assigns parentData[i + 3].
WritePixelWithAlpha(parentData, i, rgbaParent, result, w) ==
    [ parentData EXCEPT
        ![i + 1] = BlendChannel(rgbaParent[1], result.r, w),
        ![i + 2] = BlendChannel(rgbaParent[2], result.g, w),
        ![i + 3] = BlendChannel(rgbaParent[3], result.b, w),
        ![i + 4] = ToUint8Clamp(result.a, 1) ]

\* The three assignments parentData[i], parentData[i + 1], parentData[i + 2].
WritePixel(parentData, i, rgbaParent, result, w) ==
    [ parentData EXCEPT
        ![i + 1] = BlendChannel(rgbaParent[1], result.r, w),
        ![i + 2] = BlendChannel(rgbaParent[2], result.g, w),
        ![i + 3] = BlendChannel(rgbaParent[3], result.b, w) ]

\* A variant that stores the layer's pixel before it resolves the mode.
PixelStepWriteFirst(parentData, layerData, mode, opacity, i) ==
    LET rgbaParent == PixelAt(parentData, i)
        rgbaLayer == PixelAt(layerData, i)
        written == [ parentData EXCEPT ![i + 1] = rgbaLayer[1],
                                       ![i + 2] = rgbaLayer[2],
                                       ![i + 3] = rgbaLayer[3] ]
        executed == BlenderExecute(mode, rgbaLayer, rgbaParent)
    IN  IF executed.threw
        THEN [ threw |-> TRUE, parentData |-> written ]
        ELSE LET clamped == ClampResult(executed)
                 result == [ clamped EXCEPT
                               !.a = ResultAlpha(clamped, rgbaLayer) ]
             IN  [ threw |-> FALSE,
                   parentData |->
                     WritePixel(parentData, i, rgbaParent, result,
                                Weight(opacity, result.a)) ]

\* One iteration of the loop of applyToParent, at byte offset i.  An error
\* thrown by Blender.execute leaves the loop before the iteration's writes.
PixelStep(parentData, layerData, mode, opacity, i) ==
    LET rgbaParent == PixelAt(parentData, i)
        rgbaLayer == PixelAt(layerData, i)
        executed == BlenderExecute(mode, rgbaLayer, rgbaParent)
    IN  IF executed.threw
        THEN [ threw |-> TRUE, parentData |-> parentData ]
        ELSE LET clamped == ClampResult(executed)
                 result == [ clamped EXCEPT
                               !.a = ResultAlpha(clamped, rgbaLayer) ]
             IN  [ threw |-> FALSE,
                   parentData |->
                     WritePixel(parentData, i, rgbaParent, result,
                                Weight(opacity, result.a)) ]

\* The loop of applyToParent: for (i = 0; i < layerData.length; i += 4).
RECURSIVE ApplyLoop(_, _, _, _, _)
ApplyLoop(parentData, layerData, mode, opacity, i) ==
    IF i >= Len(layerData)
    THEN [ threw |-> FALSE, parentData |-> parentData ]
    ELSE LET step == PixelStep(parentData, layerData, mode, opacity, i)
         IN  IF step.threw THEN step
             ELSE ApplyLoop(step.parentData, layerData, mode, opacity,
                            i + BytesPerPixel)

\* ------------------------------------------------------------------------
\* State
\* ------------------------------------------------------------------------

VARIABLES
    dimensions,  \* c.dimensions
    bufs,        \* the heap of pixel buffers; bufs[1] is the base image
    pixelData,   \* c.pixelData: reference to the buffer the engine exposes
    pixelStack,  \* c.pixelStack: references to the buffers pushed beneath
    layers,      \* the layers alive, outermost first
    created,     \* number of layers constructed so far
    last         \* the last call: its name, arguments and result, and for
                 \* applyToParent the parent buffer it started from

vars == << dimensions, bufs, pixelData, pixelStack, layers, created, last >>

\* Images of n pixels: the pixels of BasePixels in turn, from any start.
Image(n, start) ==
    [ k \in 1 .. n * BytesPerPixel |->
        BasePixels[((start + ((k - 1) \div BytesPerPixel)) % Len(BasePixels))
                     + 1][((k - 1) % BytesPerPixel) + 1] ]

Images(n) == { Image(n, start) : start \in 0 .. Len(BasePixels) - 1 }

NoLayer ==
    [ options |-> DefaultOptions, width |-> 0, height |-> 0, pixelData |-> 0,
      phase |-> "none", copied |-> FALSE, mutated |-> FALSE ]

NoCall ==
    [ op |-> "none", percent |-> 0, mode |-> "", ret |-> "undefined",
      threw |-> FALSE, parent |-> << >> ]

Top == layers[Len(layers)]

TopIs(phase) == layers # << >> /\ Top.phase = phase

SetTop(layer) == [ layers EXCEPT ![Len(layers)] = layer ]

Init ==
    /\ dimensions \in Dimensions
    /\ \E img \in Images(dimensions.width * dimensions.height) :
         bufs = << img >>
    /\ pixelData = 1
    /\ pixelStack = << >>
    /\ layers = << >>
    /\ created = 0
    /\ last = NoCall

\* ------------------------------------------------------------------------
\* Layer: constructor
\* ------------------------------------------------------------------------

\* A variant that allocates one byte per pixel.
LayerConstructPerPixel(dims, engineLength, ref) ==
    [ layer |-> [ options |-> DefaultOptions,
                  width |-> dims.width, height |-> dims.height,
                  pixelData |-> ref, phase |-> "callback",
                  copied |-> FALSE, mutated |-> FALSE ],
      buffer |-> NewUint8ClampedArray(engineLength \div BytesPerPixel) ]

\* new Layer(c): default options, the engine's dimensions and a new buffer
\* as long as c.pixelData.  `ref` is the reference the new buffer gets.
\* copied and mutated record what happened to the buffer since.
LayerConstruct(dims, engineLength, ref) ==
    [ layer |-> [ options |-> DefaultOptions,
                  width |-> dims.width, height |-> dims.height,
                  pixelData |-> ref, phase |-> "callback",
                  copied |-> FALSE, mutated |-> FALSE ],
      buffer |-> NewUint8ClampedArray(engineLength) ]

\* ------------------------------------------------------------------------
\* Engine
\* ------------------------------------------------------------------------

\* c.newLayer(cb) up to the start of the callback: a Layer is constructed;
\* the engine still exposes the buffer beneath it.
EngineNewLayer(limit) ==
    /\ created < limit
    /\ LET made == LayerConstruct(dimensions, Len(bufs[pixelData]),
                                  Len(bufs) + 1)
       IN  /\ bufs' = Append(bufs, made.buffer)
           /\ layers' = Append(layers, made.layer)
           /\ last' = [ NoCall EXCEPT !.op = "newLayer" ]
    /\ created' = created + 1
    /\ UNCHANGED << dimensions, pixelData, pixelStack >>

\* The engine's newLayer called by the user on the engine itself.
NewLayer(limit) ==
    /\ layers = << >>
    /\ EngineNewLayer(limit)

\* The engine makes the layer the active one: the exposed buffer is pushed
\* on c.pixelStack and c.pixelData becomes the layer's buffer.
ExecuteLayer ==
    /\ TopIs("callback")
    /\ pixelStack' = Append(pixelStack, pixelData)
    /\ pixelData' = Top.pixelData
    /\ layers' = SetTop([ Top EXCEPT !.phase = "active" ])
    /\ last' = [ NoCall EXCEPT !.op = "executeLayer" ]
    /\ UNCHANGED << dimensions, bufs, created >>

\* c.fillColor(r, g, b, a): a uniform colour over the exposed buffer.
EngineFillColor(data, colour) ==
    [ k \in 1 .. Len(data) |-> colour[((k - 1) % BytesPerPixel) + 1] ]

\* After applyToParent the engine discards the layer and exposes the
\* buffer beneath it again.
PopContext ==
    /\ TopIs("merged")
    /\ pixelData' = pixelStack[Len(pixelStack)]
    /\ pixelStack' = SubSeq(pixelStack, 1, Len(pixelStack) - 1)
    /\ layers' = SubSeq(layers, 1, Len(layers) - 1)
    /\ bufs' = SubSeq(bufs, 1, Len(bufs) - 1)
    /\ last' = [ NoCall EXCEPT !.op = "popContext" ]
    /\ UNCHANGED << dimensions, created >>

\* ------------------------------------------------------------------------
\* Layer: methods
\* ------------------------------------------------------------------------

Call(op) == [ NoCall EXCEPT !.op = op ]

\* layer.newLayer(cb): delegates to c.newLayer; returns nothing.
LayerNewLayer(limit) ==
    /\ TopIs("active")
    /\ EngineNewLayer(limit)

\* layer.setBlendingMode(mode)
SetBlendingMode(mode) ==
    /\ TopIs("callback")
    /\ layers' = SetTop([ Top EXCEPT !.options.blendingMode = mode ])
    /\ last' = [ Call("setBlendingMode") EXCEPT !.mode = mode,
                                                     !.ret = "this" ]
    /\ UNCHANGED << dimensions, bufs, pixelData, pixelStack, created >>

\* layer.opacity(opacity)
Opacity(opacity) ==
    /\ TopIs("callback")
    /\ layers' = SetTop([ Top EXCEPT
                            !.options.opacity = OpacityValue(opacity) ])
    /\ last' = [ Call("opacity") EXCEPT !.percent = opacity,
                                             !.ret = "this" ]
    /\ UNCHANGED << dimensions, bufs, pixelData, pixelStack, created >>

\* layer.copyParent()
CopyParent ==
    /\ TopIs("callback")
    /\ bufs' = [ bufs EXCEPT ![Top.pixelData] =
                   CopyParentData(bufs[Top.pixelData], bufs[pixelData]) ]
    /\ layers' = SetTop([ Top EXCEPT !.copied = TRUE ])
    /\ last' = [ Call("copyParent") EXCEPT !.ret = "this" ]
    /\ UNCHANGED << dimensions, pixelData, pixelStack, created >>

\* layer.fillColor(...): c.fillColor.apply(c, arguments); returns nothing.
\* The engine runs the fill when the layer is the active one.
FillColor(colour) ==
    /\ TopIs("active")
    /\ bufs' = [ bufs EXCEPT ![pixelData] =
                   EngineFillColor(bufs[pixelData], colour) ]
    /\ layers' = SetTop([ Top EXCEPT !.mutated = TRUE ])
    /\ last' = Call("fillColor")
    /\ UNCHANGED << dimensions, pixelData, pixelStack, created >>

\* layer.applyToParent(): the parent is the top of c.pixelStack, the
\* layer's data is c.pixelData.  A thrown error ends the run ("failed").
ApplyToParent ==
    /\ TopIs("active")
    /\ LET parentRef == pixelStack[Len(pixelStack)]
           outcome == ApplyLoop(bufs[parentRef], bufs[pixelData],
                                Top.options.blendingMode,
                                Top.options.opacity, 0)
           below == Len(layers) - 1
       IN  /\ bufs' = [ bufs EXCEPT ![parentRef] = outcome.parentData ]
           /\ layers' =
                [ k \in 1 .. Len(layers) |->
                    IF k = Len(layers)
                    THEN [ Top EXCEPT !.phase = IF outcome.threw
                                                THEN "failed" ELSE "merged" ]
                    ELSE IF k = below /\ ~outcome.threw
                    THEN [ layers[k] EXCEPT !.mutated = TRUE ]
                    ELSE layers[k] ]
           /\ last' = [ Call("applyToParent") EXCEPT
                          !.threw = outcome.threw,
                          !.parent = bufs[parentRef] ]
    /\ UNCHANGED << dimensions, pixelData, pixelStack, created >>

\* One layer at a time, with every input.
Next ==
    \/ NewLayer(MaxLayers)
    \/ \E mode \in ModeNames : SetBlendingMode(mode)
    \/ \E opacity \in Percents : Opacity(opacity)
    \/ CopyParent
    \/ ExecuteLayer
    \/ \E colour \in FillPixels : FillColor(colour)
    \/ ApplyToParent
    \/ PopContext

Spec == Init /\ [][Next]_vars

\* Layers created while another layer is active, with fewer inputs.
StackNext ==
    \/ NewLayer(MaxStackLayers)
    \/ LayerNewLayer(MaxStackLayers)
    \/ \E mode \in StackModes : SetBlendingMode(mode)
    \/ \E opacity \in StackPercents : Opacity(opacity)
    \/ CopyParent
    \/ ExecuteLayer
    \/ \E colour \in StackFills : FillColor(colour)
    \/ ApplyToParent
    \/ PopContext

StackSpec == Init /\ [][StackNext]_vars

\* ------------------------------------------------------------------------
\* Vocabulary of the properties
\* ------------------------------------------------------------------------

\* The last call was applyToParent, on the top layer.
Applied == layers # << >> /\ last.op = "applyToParent"

\* ... and it returned normally.
Merged == Applied /\ ~last.threw

ParentBefore == last.parent

ParentAfter == bufs[pixelStack[Len(pixelStack)]]

LayerData == bufs[pixelData]

AppliedMode == Top.options.blendingMode

AppliedOpacity == Top.options.opacity

PixelOffsets(data) == { i \in 0 .. Len(data) - 1 : i % BytesPerPixel = 0 }

RGB == 1 .. 3

Channel(result, c) ==
    CASE c = 1 -> result.r [] c = 2 -> result.g [] c = 3 -> result.b

\* x limited to 0 .. 255.
Limited(x) == IF x < 0 THEN 0 ELSE IF x > ChannelMax THEN ChannelMax ELSE x

\* b is the byte a clamped array holds after the number n / d is stored.
IsStored(b, n, d) ==
    /\ b \in 0 .. ChannelMax
    /\ \/ 2 * Abs(b * d - n) < d
       \/ 2 * Abs(b * d - n) = d /\ b % 2 = 0
       \/ b = 0 /\ n < 0
       \/ b = ChannelMax /\ n > ChannelMax * d

\* What the blend function returns for the pixel at offset i.
Blended(i) ==
    BlenderExecute(AppliedMode, PixelAt(LayerData, i),
                   PixelAt(ParentBefore, i))

RGBUnchangedAt(i) ==
    \A c \in RGB : ParentAfter[i + c] = ParentBefore[i + c]

\* ------------------------------------------------------------------------
\* Properties
\* ------------------------------------------------------------------------

\* C1: applyToParent leaves every alpha byte of the parent buffer as it
\* was, whatever the mode, the opacity and the contents of the buffers.
AlphaInvariance ==
    Applied =>
        /\ Len(ParentAfter) = Len(ParentBefore)
        /\ \A i \in PixelOffsets(ParentBefore) :
             ParentAfter[i + 4] = ParentBefore[i + 4]

\* C1 happens: a merge changed the parent's colour from a layer whose alpha
\* differs from the parent's.
AlphaInvarianceWitness ==
    /\ Merged
    /\ \E i \in PixelOffsets(ParentBefore) :
         /\ ~RGBUnchangedAt(i)
         /\ LayerData[i + 4] # ParentBefore[i + 4]

\* C2: with a mode that is not registered applyToParent throws, no byte of
\* the parent buffer is written and the layer keeps the name it was given.
UnregisteredModeFails ==
    (Applied /\ AppliedMode \notin RegisteredModes) =>
        /\ last.threw
        /\ Top.phase = "failed"
        /\ ParentAfter = ParentBefore

\* C2 happens: an unregistered mode over a two pixel parent whose colours
\* differ from the layer's.
UnregisteredModeWitness ==
    /\ Applied
    /\ AppliedMode = "bogus"
    /\ last.threw
    /\ Len(ParentBefore) = 2 * BytesPerPixel
    /\ \A i \in PixelOffsets(ParentBefore) :
         \E c \in RGB : LayerData[i + c] # ParentBefore[i + c]

\* C3: after copyParent the layer's buffer equals the buffer the engine
\* exposes, on all four channels, and the call returns the layer.
CopyParentCopiesExposed ==
    (layers # << >> /\ last.op = "copyParent") =>
        /\ bufs[Top.pixelData] = bufs[pixelData]
        /\ last.ret = "this"

\* C4: with opacity 0 applyToParent leaves R, G and B of every parent
\* pixel as they were.
ZeroOpacityNoOp ==
    (Applied /\ AppliedOpacity[1] = 0) =>
        \A i \in PixelOffsets(ParentBefore) : RGBUnchangedAt(i)

\* C4 happens: a merge with opacity 0 whose blend result differs from the
\* parent on some channel.
ZeroOpacityWitness ==
    /\ Merged
    /\ AppliedOpacity[1] = 0
    /\ AppliedMode = "linearLight"
    /\ \E i \in PixelOffsets(ParentBefore) : \E c \in RGB :
         Limited(Channel(Blended(i), c)) # ParentBefore[i + c]

\* C5: a layer with mode "normal" and opacity 1.0, initialised with
\* copyParent and not changed since, leaves the parent as it was.
IdentityBlend ==
    ( /\ Merged
      /\ Top.copied
      /\ ~Top.mutated
      /\ AppliedMode = "normal"
      /\ AppliedOpacity = << 1, 1 >> ) =>
        ParentAfter = ParentBefore

\* C5 happens: such a merge over a parent with an opaque pixel and a pixel
\* whose alpha is below 255.
IdentityBlendWitness ==
    /\ Merged
    /\ Top.copied
    /\ ~Top.mutated
    /\ AppliedMode = "normal"
    /\ AppliedOpacity = << 1, 1 >>
    /\ \E i \in PixelOffsets(ParentBefore) :
         ParentBefore[i + 4] < ChannelMax /\ ParentBefore[i + 1] > 0
    /\ \E i \in PixelOffsets(ParentBefore) : ParentBefore[i + 4] = ChannelMax

\* The alpha of the blend result: the function's own, or the layer's when
\* the function produced none.
BlendAlpha(i) ==
    IF Blended(i).hasA THEN Blended(i).a ELSE LayerData[i + 4]

\* C6: each of the parent's R, G, B bytes receives
\* parent - (parent - result) * w with w = opacity * (result.a / 255),
\* result being the clamped output of the blend function; parent
\* (100,100,100,255) under layer (200,50,0,255), "normal", opacity 0.5
\* becomes (150,75,50,255).
InterpolationFormula ==
    Merged =>
        \A i \in PixelOffsets(ParentBefore) :
            /\ \A c \in RGB :
                 LET P == ParentBefore[i + c]
                     R == Limited(Channel(Blended(i), c))
                     n == AppliedOpacity[1] * BlendAlpha(i)
                     d == AppliedOpacity[2] * ChannelMax
                 IN  IsStored(ParentAfter[i + c], P * d - (P - R) * n, d)
            /\ ( /\ PixelAt(ParentBefore, i) = << 100, 100, 100, 255 >>
                 /\ PixelAt(LayerData, i) = << 200, 50, 0, 255 >>
                 /\ AppliedMode = "normal"
                 /\ AppliedOpacity = << 1, 2 >> ) =>
                   PixelAt(ParentAfter, i) = << 150, 75, 50, 255 >>

\* C7: with opacity 1.0 and a blend result of alpha 255 the parent's R, G
\* and B become the blend result limited to 0 .. 255, and every byte of
\* every buffer is within 0 .. 255.
FullOpacitySaturation ==
    /\ \A k \in 1 .. Len(bufs) : \A j \in 1 .. Len(bufs[k]) :
         bufs[k][j] \in 0 .. ChannelMax
    /\ (Merged /\ AppliedOpacity = << 1, 1 >>) =>
         \A i \in PixelOffsets(ParentBefore) :
            (Blended(i).hasA /\ Blended(i).a = ChannelMax) =>
                \A c \in RGB :
                    ParentAfter[i + c] = Limited(Channel(Blended(i), c))

\* C7 happens: a full opacity merge whose blend function returned alpha
\* 255 with a channel below 0 and a channel above 255.
FullOpacityWitness ==
    /\ Merged
    /\ AppliedOpacity = << 1, 1 >>
    /\ \E i \in PixelOffsets(ParentBefore) :
         /\ Blended(i).hasA /\ Blended(i).a = ChannelMax
         /\ \E c \in RGB : Channel(Blended(i), c) < 0
         /\ \E c \in RGB : Channel(Blended(i), c) > ChannelMax

\* C8: opacity(p) stores exactly p / 100, also for p < 0 and p > 100,
\* changes neither the blending mode nor any pixel and returns the layer;
\* a new layer has opacity 1.0 and mode "normal".
OpacitySetter ==
    [][ /\ (last'.op = "opacity" /\ layers # << >>) =>
             /\ Len(layers') = Len(layers)
             /\ Top'.options.opacity[1] * PercentScale =
                  last'.percent * Top'.options.opacity[2]
             /\ Top'.options.blendingMode = Top.options.blendingMode
             /\ bufs' = bufs
             /\ last'.ret = "this"
        /\ (last'.op = "newLayer" /\ Len(layers') > Len(layers)) =>
             /\ Top'.options.opacity = << 1, 1 >>
             /\ Top'.options.blendingMode = "normal" ]_vars

\* C8 happens: opacity(-50) on a layer whose mode is not the default.
OpacitySetterWitness ==
    /\ layers # << >>
    /\ last.op = "opacity"
    /\ last.percent < 0
    /\ Top.options.opacity = << -1, 2 >>
    /\ Top.options.blendingMode # "normal"

\* C9: the layer's alpha stands in for the result's only when the blend
\* function produced none; a blend result with an explicit alpha of 0
\* leaves R, G and B of the parent pixel as they were.
ExplicitZeroAlphaNoOp ==
    Merged =>
        \A i \in PixelOffsets(ParentBefore) :
            (Blended(i).hasA /\ Blended(i).a = 0) => RGBUnchangedAt(i)

\* C10: every layer's buffer is as long as the base buffer, that is
\* width * height * 4 bytes, a multiple of 4; a new layer's buffer holds
\* zeros only.
BufferLengths ==
    /\ \A k \in 1 .. Len(layers) :
         LET data == bufs[layers[k].pixelData]
         IN  /\ Len(data) = dimensions.width * dimensions.height * 4
             /\ Len(data) % 4 = 0
             /\ Len(data) = Len(bufs[1])
             /\ layers[k].width = dimensions.width
             /\ layers[k].height = dimensions.height
    /\ (layers # << >> /\ last.op = "newLayer") =>
         \A j \in 1 .. Len(bufs[Top.pixelData]) : bufs[Top.pixelData][j] = 0

\* C10 happens: a layer constructed while another layer, already
\* configured and filled, is the active one.
BufferLengthsWitness ==
    /\ Len(layers) = 2
    /\ last.op = "newLayer"
    /\ layers[1].phase = "active"
    /\ layers[1].mutated
    /\ layers[1].options.blendingMode # "normal"
    /\ Len(bufs[pixelData]) = 2 * BytesPerPixel

====
